---- MODULE Spec2Model ----
(***************************************************************************)
(* A model of xml_structure.py: scan() folds a stream of lxml start/end    *)
(* events into a tree of SchemaElement objects, pformat() renders it.      *)
(*                                                                         *)
(* Python strings are sequences of one-character strings, so that          *)
(* startswith, slicing, sorting and joining are computed, not assumed.     *)
(* None (element.prefix of an unprefixed element) is the empty sequence:   *)
(* the code only tests it for truth and uses it as a key of nsmap.         *)
(* SchemaElement objects live in `heap`, a sequence indexed by object      *)
(* identity; `children` maps a full tag to an identity.                    *)
(***************************************************************************)
EXTENDS Integers, Sequences, FiniteSets, TLC

\* ------------------------------------------------------------------ bounds
\* The event source delivers at most MaxEvents events before it is exhausted.
MaxEvents == 6
\* The event source never has more than MaxDepth elements open at once.
MaxDepth == 2
\* The ProgressFd wrapper is followed over at most MaxCount non-empty reads.
MaxCount == 1
\* The parser meets at most MaxComments comments in the document.
MaxComments == 2

\* ------------------------------------------------------ the event source
None == << >>

\* Attribute names an element may carry (element.attrib.keys()).
AttrNames == { <<"x">>, <<"y">> }
AttrSets == SUBSET AttrNames

\* What lxml hands over with each event: element.tag, element.prefix,
\* element.nsmap.  PlainA is <a> outside any namespace and PrefB is <p:b> with
\* xmlns:p="u".  The other two are combinations only an inconsistent parser
\* delivers: BareB has a qualified tag but a prefix that nsmap does not
\* resolve, WrongB a qualifier other than the namespace of its prefix.
PlainA == [tag |-> <<"a">>, prefix |-> None, nsmap |-> << >>]
PrefB == [tag |-> <<"{", "u", "}", "b">>, prefix |-> <<"p">>,
          nsmap |-> [k \in {<<"p">>} |-> <<"u">>]]
BareB == [tag |-> <<"{", "u", "}", "b">>, prefix |-> None, nsmap |-> << >>]
WrongB == [tag |-> <<"{", "v", "}", "b">>, prefix |-> <<"p">>,
           nsmap |-> [k \in {<<"p">>} |-> <<"u">>]]
Elements == {PlainA, PrefB, BareB, WrongB}

\* The ('start', element) events the source may deliver: an element and the
\* keys of its element.attrib.
StartEvents ==
  ({PlainA} \X AttrSets) \cup ({PrefB, BareB, WrongB} \X {{}})

\* ------------------------------------------------------------ str helpers
\* str.startswith
startswith(s, p) == Len(p) <= Len(s) /\ SubSeq(s, 1, Len(p)) = p

\* s[n:]
SliceFrom(s, n) == SubSeq(s, n + 1, Len(s))

\* ' ' * n
Spaces(n) == [i \in 1..n |-> " "]

Digit(d) == <<"0", "1", "2", "3", "4", "5", "6", "7", "8", "9">>[d + 1]

\* str(n) for n >= 0
RECURSIVE str(_)
str(n) == IF n < 10 THEN <<Digit(n)>> ELSE str(n \div 10) \o <<Digit(n % 10)>>

\* ord() of the characters the model uses
ord(c) ==
  CASE c = " " -> 32 [] c = "(" -> 40 [] c = ")" -> 41 [] c = ":" -> 58
    [] c = "a" -> 97 [] c = "b" -> 98 [] c = "p" -> 112 [] c = "u" -> 117
    [] c = "v" -> 118 [] c = "x" -> 120 [] c = "y" -> 121
    [] c = "{" -> 123 [] c = "}" -> 125

\* s < t for Python byte strings
RECURSIVE StrLess(_, _)
StrLess(s, t) ==
  IF t = << >> THEN FALSE
  ELSE IF s = << >> THEN TRUE
  ELSE IF Head(s) = Head(t) THEN StrLess(Tail(s), Tail(t))
  ELSE ord(Head(s)) < ord(Head(t))

\* sorted(S) for a set of strings
RECURSIVE sorted(_)
sorted(S) ==
  IF S = {} THEN << >>
  ELSE LET m == CHOOSE x \in S : \A y \in S \ {x} : StrLess(x, y)
       IN <<m>> \o sorted(S \ {m})

\* ---------------------------------------------------------- SchemaElement
\* SchemaElement.__init__
SchemaElement(prefix, shorttag) ==
  [prefix |-> prefix, shorttag |-> shorttag, count |-> 0,
   children |-> << >>, attrib |-> << >>]

\* add_instance with the wrong default, self.attrib.get(k, 1) + 1.
add_instance_default1(self, attrib) ==
  [self EXCEPT
     !.count = @ + 1,
     !.attrib = [k \in (DOMAIN self.attrib) \cup attrib |->
                   IF k \in attrib
                   THEN (IF k \in DOMAIN self.attrib THEN self.attrib[k] ELSE 1) + 1
                   ELSE self.attrib[k]]]

\* add_instance that forgets the old value, self.attrib[k] = 1.
add_instance_setone(self, attrib) ==
  [self EXCEPT
     !.count = @ + 1,
     !.attrib = [k \in (DOMAIN self.attrib) \cup attrib |->
                   IF k \in attrib THEN 1 ELSE self.attrib[k]]]

\* SchemaElement.add_instance on the object `self`; attrib is the set of
\* keys of the instance's attribute mapping.
add_instance(self, attrib) ==
  [self EXCEPT
     !.count = @ + 1,
     !.attrib = [k \in (DOMAIN self.attrib) \cup attrib |->
                   IF k \in attrib
                   THEN (IF k \in DOMAIN self.attrib THEN self.attrib[k] ELSE 0) + 1
                   ELSE self.attrib[k]]]

\* add_child that counts an instance only when the child already exists.
add_child_uncounted(h, self, tag, prefix, shorttag, attrib) ==
  IF tag \in DOMAIN h[self].children
  THEN LET child == h[self].children[tag]
       IN [heap |-> [h EXCEPT ![child] = add_instance(@, attrib)],
           child |-> child]
  ELSE LET child == Len(h) + 1
           h1 == Append(h, SchemaElement(prefix, shorttag))
       IN [heap |-> [h1 EXCEPT ![self].children =
                       [t \in (DOMAIN @) \cup {tag} |->
                          IF t = tag THEN child ELSE @[t]]],
           child |-> child]

\* add_child that never looks the tag up: every call makes a new object,
\* which starts from the old one's counts and replaces it in the map.
add_child_fresh(h, self, tag, prefix, shorttag, attrib) ==
  LET child == Len(h) + 1
      old == IF tag \in DOMAIN h[self].children
             THEN h[h[self].children[tag]]
             ELSE SchemaElement(prefix, shorttag)
      h1 == Append(h, add_instance(old, attrib))
  IN [heap |-> [h1 EXCEPT ![self].children =
                  [t \in (DOMAIN @) \cup {tag} |->
                     IF t = tag THEN child ELSE @[t]]],
      child |-> child]

\* add_child that also stores the prefix and short tag of the new instance
\* in a child that already exists.
add_child_relabel(h, self, tag, prefix, shorttag, attrib) ==
  IF tag \in DOMAIN h[self].children
  THEN LET child == h[self].children[tag]
       IN [heap |-> [h EXCEPT ![child] =
                       [add_instance(@, attrib) EXCEPT !.prefix = prefix,
                                                       !.shorttag = shorttag]],
           child |-> child]
  ELSE LET child == Len(h) + 1
           h1 == Append(h, SchemaElement(prefix, shorttag))
           h2 == [h1 EXCEPT ![self].children =
                    [t \in (DOMAIN @) \cup {tag} |->
                       IF t = tag THEN child ELSE @[t]]]
       IN [heap |-> [h2 EXCEPT ![child] = add_instance(@, attrib)],
           child |-> child]

\* SchemaElement.add_child on object h[self]: the heap after the call and
\* the identity of the child returned.
add_child(h, self, tag, prefix, shorttag, attrib) ==
  IF tag \in DOMAIN h[self].children
  THEN LET child == h[self].children[tag]
       IN [heap |-> [h EXCEPT ![child] = add_instance(@, attrib)],
           child |-> child]
  ELSE LET child == Len(h) + 1
           h1 == Append(h, SchemaElement(prefix, shorttag))
           h2 == [h1 EXCEPT ![self].children =
                    [t \in (DOMAIN @) \cup {tag} |->
                       IF t = tag THEN child ELSE @[t]]]
       IN [heap |-> [h2 EXCEPT ![child] = add_instance(@, attrib)],
           child |-> child]

\* The children in the order in which they were created (an unsorted
\* loop over a dict that keeps insertion order).
RECURSIVE ByIdentity(_, _)
ByIdentity(e, S) ==
  IF S = {} THEN << >>
  ELSE LET m == CHOOSE x \in S : \A y \in S : e.children[x] <= e.children[y]
       IN <<m>> \o ByIdentity(e, S \ {m})

ChildOrder_unsorted(e) == ByIdentity(e, DOMAIN e.children)

\* The children visited by pformat's loop, in its order.
ChildOrder(e) == sorted(DOMAIN e.children)

\* The attributes listed by pformat's loop, in its order.
AttribOrder(e) == sorted(DOMAIN e.attrib)

RECURSIVE AttribLines(_, _, _)
AttribLines(e, ats, indent) ==
  IF ats = << >> THEN << >>
  ELSE <<"\n">> \o Spaces(indent + 1) \o Head(ats) \o <<"{">>
       \o str(e.attrib[Head(ats)]) \o <<"}">>
       \o AttribLines(e, Tail(ats), indent)

\* The text with the test `attribs and element.attrib` reduced to `attribs`.
NodeText_noemptytest(element, indent, attribs) ==
  Spaces(indent)
  \o (IF element.prefix # << >> THEN element.prefix \o <<":">> ELSE << >>)
  \o element.shorttag \o <<"{">> \o str(element.count) \o <<"}">>
  \o (IF attribs
      THEN <<" ", "(">> \o AttribLines(element, AttribOrder(element), indent)
           \o <<"\n">> \o Spaces(indent) \o <<")", ":", "\n">>
      ELSE <<":", "\n">>)

\* The text with the colon after the prefix appended for every element.
NodeText_colonalways(element, indent, attribs) ==
  Spaces(indent)
  \o element.prefix \o <<":">>
  \o element.shorttag \o <<"{">> \o str(element.count) \o <<"}">>
  \o (IF attribs /\ DOMAIN element.attrib # {}
      THEN <<" ", "(">> \o AttribLines(element, AttribOrder(element), indent)
           \o <<"\n">> \o Spaces(indent) \o <<")", ":", "\n">>
      ELSE <<":", "\n">>)

\* What recurse(element, indent) appends for the element itself, before it
\* turns to the children.
NodeText(element, indent, attribs) ==
  Spaces(indent)
  \o (IF element.prefix # << >> THEN element.prefix \o <<":">> ELSE << >>)
  \o element.shorttag \o <<"{">> \o str(element.count) \o <<"}">>
  \o (IF attribs /\ DOMAIN element.attrib # {}
      THEN <<" ", "(">> \o AttribLines(element, AttribOrder(element), indent)
           \o <<"\n">> \o Spaces(indent) \o <<")", ":", "\n">>
      ELSE <<":", "\n">>)

\* pformat's inner recurse(element, indent), as the text it appends
RECURSIVE recurse(_, _, _, _)
RECURSIVE RecurseAll(_, _, _, _, _)
RecurseAll(h, e, keys, indent, attribs) ==
  IF keys = << >> THEN << >>
  ELSE recurse(h, e.children[Head(keys)], indent + 2, attribs)
       \o RecurseAll(h, e, Tail(keys), indent, attribs)
recurse(h, n, indent, attribs) ==
  NodeText(h[n], indent, attribs)
  \o RecurseAll(h, h[n], ChildOrder(h[n]), indent, attribs)

\* SchemaElement.pformat(attribs) of object h[n]
pformat(h, n, attribs) == recurse(h, n, 0, attribs)

\* What dump_schema(schema) prints for the object h[n]; each print statement
\* ends its text with a newline.  The headings are kept as whole words.
dump_schema(h, n) ==
  <<"Overview", "\n", "========", "\n">>
  \o pformat(h, n, FALSE) \o <<"\n">>
  \o <<"\n">>
  \o <<"Details", "\n", "=======", "\n">>
  \o pformat(h, n, TRUE) \o <<"\n">>

\* ------------------------------------------------------------------ state
VARIABLES
  pc,        \* "init", "loop", "returned", "aborted"
  err,       \* the exception that ended scan, "" when none
  errline,   \* the source line that raised it, 0 when none
  fd,        \* the file object: "none" before open(), then "open"
  heap,      \* the SchemaElement objects, heap[schema] is the synthetic root
  stack,     \* scan's stack of SchemaElement identities
  event,     \* loop variable: "start" or "end" ("" before the first event)
  tag,       \* local
  prefix,    \* local
  ns,        \* local
  shorttag,  \* local
  result,    \* the identity scan returned, 0 when it has not returned
  srcOpen,   \* the parser's own stack of open elements
  events,    \* the events the loop body has handled so far (history)
  progress,  \* scan's argument `progress`
  size,      \* ProgressFd.size, 0 when there is no wrapper
  count,     \* ProgressFd.count, 0 when there is no wrapper
  raw,       \* the parser's tree: raw[1] is the nodes at document level,
             \* raw[k + 1] the nodes attached below the k-th open element
  ncomments  \* the comments the parser has met so far (history)

vars == <<pc, err, errline, fd, heap, stack, event, tag, prefix, ns, shorttag,
          result, srcOpen, events, progress, size, count, raw, ncomments>>

\* identity of the object created by `schema = SchemaElement('', '')`
schema == 1

\* os.path.getsize(filename): st_size is 0 for a named pipe, a character
\* device and most /proc files, whatever can be read from them; for a
\* regular file it is the number of bytes there are to read.
Sizes == {0, MaxCount}

\* The state on entry to scan(filename, progress = p).
Entered(p) ==
  /\ pc = "init"
  /\ err = ""
  /\ errline = 0
  /\ fd = "none"
  /\ heap = <<SchemaElement(<< >>, << >>)>>
  /\ stack = <<schema>>
  /\ event = ""
  /\ tag = << >>
  /\ prefix = << >>
  /\ ns = << >>
  /\ shorttag = << >>
  /\ result = 0
  /\ srcOpen = << >>
  /\ events = << >>
  /\ progress = p
  /\ size = 0
  /\ count = 0
  /\ raw = <<<< >>>>
  /\ ncomments = 0

\* scan(filename): progress defaults to False.
Init == Entered(FALSE)

\* scan(filename, True), as the command line calls it.
InitProgress == Entered(TRUE)

\* fd = open(filename): succeeds, or raises IOError.  Nothing in scan closes
\* fd afterwards: there is no close() and no with block.
\* if progress: fd = ProgressFd(fd, os.path.getsize(filename))
Open ==
  /\ pc = "init"
  /\ \/ /\ fd' = "open"
        /\ pc' = "loop"
        /\ IF progress THEN size' \in Sizes ELSE size' = size
        /\ UNCHANGED <<err, errline>>
     \/ /\ fd' = fd
        /\ pc' = "aborted"
        /\ err' = "IOError"
        /\ errline' = 172
        /\ size' = size
  /\ UNCHANGED <<heap, stack, event, tag, prefix, ns, shorttag, result,
                 srcOpen, events, progress, count, raw, ncomments>>

\* The parser has read the bytes it delivers events from: through the
\* wrapper when there is one, from the file itself otherwise.
Fed == progress => count > 0

\* ProgressFd.read(bytes), called by the parser for its next chunk; n is
\* len(result) and due tells whether a second has passed since lastdisplay.
\* display() returns early while count is 0 or the second has not passed,
\* and otherwise computes float(self.count) / self.size.
Read ==
  /\ pc = "loop"
  /\ progress
  /\ count < MaxCount
  /\ \E n \in {0, 1}, due \in BOOLEAN :
       /\ count' = count + n
       /\ IF count + n # 0 /\ due /\ size = 0
          THEN /\ pc' = "aborted"
               /\ err' = "ZeroDivisionError"
               /\ errline' = 146
          ELSE UNCHANGED <<pc, err, errline>>
  /\ UNCHANGED <<fd, heap, stack, event, tag, prefix, ns, shorttag, result,
                 srcOpen, events, progress, size, raw, ncomments>>

\* ns = '{%s}' % element.nsmap[prefix], or '' on KeyError
Namespace(el) ==
  IF el.prefix \in DOMAIN el.nsmap
  THEN <<"{">> \o el.nsmap[el.prefix] \o <<"}">>
  ELSE << >>

\* shorttag = tag[len(ns):]
ShortTag(el) == SliceFrom(el.tag, Len(Namespace(el)))

\* The loop body with an end event also dropping the closed node from the
\* children of the node below it on the stack.
Fold_prune(h, s, ev, el, attrib) ==
  IF ev = "start"
  THEN LET r == add_child(h, s[Len(s)], el.tag, el.prefix, ShortTag(el), attrib)
       IN [heap |-> r.heap, stack |-> Append(s, r.child)]
  ELSE [heap |-> IF Len(s) < 2 THEN h
                 ELSE [h EXCEPT ![s[Len(s) - 1]].children =
                         [t \in {u \in DOMAIN @ : @[u] # s[Len(s)]} |-> @[t]]],
        stack |-> SubSeq(s, 1, Len(s) - 1)]

\* The loop body with an end event also counting the closed node once more.
Fold_recount(h, s, ev, el, attrib) ==
  IF ev = "start"
  THEN LET r == add_child(h, s[Len(s)], el.tag, el.prefix, ShortTag(el), attrib)
       IN [heap |-> r.heap, stack |-> Append(s, r.child)]
  ELSE [heap |-> [h EXCEPT ![s[Len(s)]] = add_instance(@, attrib)],
        stack |-> SubSeq(s, 1, Len(s) - 1)]

\* The loop body with an end event leaving the stack as it is.
Fold_nopop(h, s, ev, el, attrib) ==
  IF ev = "start"
  THEN LET r == add_child(h, s[Len(s)], el.tag, el.prefix, ShortTag(el), attrib)
       IN [heap |-> r.heap, stack |-> Append(s, r.child)]
  ELSE [heap |-> h, stack |-> s]

\* The if/elif of the loop body on heap h and stack s (s is not empty).
Fold(h, s, ev, el, attrib) ==
  IF ev = "start"
  THEN LET r == add_child(h, s[Len(s)], el.tag, el.prefix, ShortTag(el), attrib)
       IN [heap |-> r.heap, stack |-> Append(s, r.child)]
  ELSE [heap |-> h, stack |-> SubSeq(s, 1, Len(s) - 1)]

\* One iteration of the loop for the event (ev, el) with el.attrib.keys()
\* = attrib.
Iteration(ev, el, attrib) ==
  /\ event' = ev
  /\ tag' = el.tag
  /\ prefix' = el.prefix
  /\ ns' = Namespace(el)
  /\ UNCHANGED <<result, fd, progress, size, count, ncomments>>
  /\ IF ~startswith(el.tag, Namespace(el))
     THEN /\ pc' = "aborted"
          /\ err' = "AssertionError"
          /\ errline' = 189
          /\ UNCHANGED <<heap, stack, shorttag, events>>
     ELSE /\ shorttag' = ShortTag(el)
          /\ IF stack = << >>
             THEN \* stack[-1] and del stack[-1] raise on an empty list
                  /\ pc' = "aborted"
                  /\ err' = "IndexError"
                  /\ errline' = IF ev = "start" THEN 193 ELSE 196
                  /\ UNCHANGED <<heap, stack, events>>
             ELSE LET r == Fold(heap, stack, ev, el, attrib)
                  IN /\ heap' = r.heap
                     /\ stack' = r.stack
                     /\ events' = Append(events,
                          [event |-> ev, el |-> el, attrib |-> attrib])
                     /\ UNCHANGED <<pc, err, errline>>

\* The parser's tree r with node x attached as the last child of the
\* innermost open element (at document level when there is none).
Attach(r, x) == [r EXCEPT ![Len(r)] = Append(@, x)]

\* element.clear() and the lines after it, for the innermost open element
\* of the parser's tree r: clear() detaches all its children; when it has a
\* preceding sibling (getprevious() is not None: comments are siblings too)
\* and a parent (it is not at document level), the parent's first child is
\* deleted.
Cleanup(r) ==
  LET up == SubSeq(r, 1, Len(r) - 1)
      k  == Len(up)
  IN IF Len(up[k]) > 1 /\ k > 1
     THEN [up EXCEPT ![k] = Tail(@)]
     ELSE up

\* The parser delivers ('start', element).
Start ==
  /\ pc = "loop"
  /\ Fed
  /\ Len(events) < MaxEvents
  /\ Len(srcOpen) < MaxDepth
  /\ \E se \in StartEvents :
       /\ srcOpen' = Append(srcOpen, se)
       /\ raw' = Append(Attach(raw, "element"), << >>)
       /\ Iteration("start", se[1], se[2])

\* The parser delivers ('end', element) for its innermost open element.
End ==
  /\ pc = "loop"
  /\ Fed
  /\ Len(events) < MaxEvents
  /\ srcOpen # << >>
  /\ srcOpen' = SubSeq(srcOpen, 1, Len(srcOpen) - 1)
  /\ Iteration("end", srcOpen[Len(srcOpen)][1], srcOpen[Len(srcOpen)][2])
  /\ raw' = IF pc' = "loop" THEN Cleanup(raw) ELSE raw

\* The parser delivers ('end', element) although it has no element open.
StrayEnd ==
  /\ pc = "loop"
  /\ Fed
  /\ Len(events) < MaxEvents
  /\ srcOpen = << >>
  /\ srcOpen' = srcOpen
  /\ raw' = raw
  /\ \E el \in Elements : Iteration("end", el, {})

\* The return statement returning the synthetic root itself.
Return_root ==
  /\ pc = "loop"
  /\ pc' = "returned"
  /\ result' = schema
  /\ UNCHANGED <<err, errline, fd, heap, stack, event, tag, prefix, ns,
                 shorttag, srcOpen, events, progress, size, count, raw,
                 ncomments>>

\* The iterator is exhausted: return schema.children.values()[0].
\* The order of dict.values() is not specified, so any child may be first.
Return ==
  /\ pc = "loop"
  /\ IF DOMAIN heap[schema].children = {}
     THEN /\ pc' = "aborted"
          /\ err' = "IndexError"
          /\ errline' = 203
          /\ result' = result
     ELSE /\ pc' = "returned"
          /\ UNCHANGED <<err, errline>>
          /\ \E t \in DOMAIN heap[schema].children :
               result' = heap[schema].children[t]
  /\ UNCHANGED <<fd, heap, stack, event, tag, prefix, ns, shorttag,
                 srcOpen, events, progress, size, count, raw, ncomments>>

Next == Open \/ Start \/ End \/ StrayEnd \/ Return

Spec == Init /\ [][Next]_vars

\* The scan with the progress wrapper: the parser's reads go through it.
NextProgress == Next \/ Read

SpecProgress == InitProgress /\ [][NextProgress]_vars

\* The parser meets a comment: events = ('start', 'end') asks for no event,
\* but the comment node is attached to the parser's tree.
Comment ==
  /\ pc = "loop"
  /\ ncomments < MaxComments
  /\ ncomments' = ncomments + 1
  /\ raw' = Attach(raw, "comment")
  /\ UNCHANGED <<pc, err, errline, fd, heap, stack, event, tag, prefix, ns,
                 shorttag, result, srcOpen, events, progress, size, count>>

\* The scan of a document that may hold comments.
NextComments == Next \/ Comment

SpecComments == Init /\ [][NextComments]_vars

\* ------------------------------------------- the document, counted directly
\* These read only the history of events, never the tree.

\* Closing the innermost of the open tags `open` (nothing to close: no change).
CloseTag(open) ==
  IF open = << >> THEN << >> ELSE SubSeq(open, 1, Len(open) - 1)

\* OpenTrace(evs, n)[i] is the sequence of full tags of the elements open
\* after the first i of the events evs, for i in 1..n.
RECURSIVE OpenTrace(_, _)
OpenTrace(evs, n) ==
  IF n = 0 THEN << >>
  ELSE LET tr == OpenTrace(evs, n - 1)
           before == IF n = 1 THEN << >> ELSE tr[n - 1]
       IN Append(tr, IF evs[n].event = "start"
                     THEN Append(before, evs[n].el.tag)
                     ELSE CloseTag(before))

\* The tags open before event i, given tr = OpenTrace(evs, Len(evs)).
OpenBefore(tr, i) == IF i = 1 THEN << >> ELSE tr[i - 1]

Starts(evs) == {i \in DOMAIN evs : evs[i].event = "start"}

\* PositionOf(evs)[i] is the tree position of the element started by event
\* i: its open ancestors' tags from the document element down, then its own
\* tag (and << >> for an end event).
PositionOf(evs) ==
  LET tr == OpenTrace(evs, Len(evs))
  IN [i \in DOMAIN evs |->
        IF evs[i].event = "start" THEN tr[i] ELSE << >>]

\* The end events that arrive while no element is open.
StrayEnds(evs) ==
  LET tr == OpenTrace(evs, Len(evs))
  IN {i \in DOMAIN evs : evs[i].event = "end" /\ OpenBefore(tr, i) = << >>}

\* Every end closes an open element and nothing is left open.
WellNested(evs) ==
  LET tr == OpenTrace(evs, Len(evs))
  IN /\ \A i \in DOMAIN evs :
          evs[i].event = "end" => OpenBefore(tr, i) # << >>
     /\ evs # << >> => tr[Len(evs)] = << >>

\* The start events of top-level elements.
TopLevel(evs) ==
  LET pos == PositionOf(evs) IN {i \in Starts(evs) : Len(pos[i]) = 1}

\* The positions at which the document has an element.
Positions(evs) ==
  LET pos == PositionOf(evs) IN {pos[i] : i \in Starts(evs)}

\* Given pos = PositionOf(evs): the start events at position p, and those
\* of them whose element carried attribute a.
InstancesAt(evs, pos, p) == {i \in Starts(evs) : pos[i] = p}

InstancesWith(evs, pos, p, a) ==
  {i \in Starts(evs) : pos[i] = p /\ a \in evs[i].attrib}

\* The positions in the order in which the document first has an element
\* there.
RECURSIVE FirstSeen(_, _, _)
FirstSeen(evs, pos, n) ==
  IF n = 0 THEN << >>
  ELSE LET sofar == FirstSeen(evs, pos, n - 1)
       IN IF evs[n].event = "start"
             /\ \A k \in DOMAIN sofar : sofar[k] # pos[n]
          THEN Append(sofar, pos[n])
          ELSE sofar

\* ------------------------------------------------------- reading the tree
\* The object reached from object n along the tags of path p, 0 if none.
RECURSIVE NodeAt(_, _, _)
NodeAt(h, n, p) ==
  IF p = << >> THEN n
  ELSE IF Head(p) \in DOMAIN h[n].children
       THEN NodeAt(h, h[n].children[Head(p)], Tail(p))
       ELSE 0

\* The paths of the objects below object n, each prefixed by `at`.
RECURSIVE PathsBelow(_, _, _)
PathsBelow(h, n, at) ==
  UNION { {Append(at, t)} \cup PathsBelow(h, h[n].children[t], Append(at, t)) :
          t \in DOMAIN h[n].children }

TreePaths == PathsBelow(heap, schema, << >>)

Node(p) == heap[NodeAt(heap, schema, p)]

Finished == pc = "returned"

\* ------------------------------------------------------------------ claims

\* C1: when scan has finished a well-nested event sequence with a single
\* top-level element, the tree has exactly one node per tree position of the
\* document, each object of the heap is the node of exactly one position, and
\* a node's count is the number of start events at its position.
C1_CountPerPosition ==
  (Finished /\ WellNested(events) /\ Cardinality(TopLevel(events)) = 1)
    => LET pos == PositionOf(events)
           paths == TreePaths
       IN /\ paths = {pos[i] : i \in Starts(events)}
          /\ Len(heap) = 1 + Cardinality(paths)
          /\ \A p \in paths :
               Node(p).count = Cardinality(InstancesAt(events, pos, p))

\* C1 witness: a finished scan of <a><a/><a/></a>: the tag a is counted once
\* at the top and twice below itself, in two different nodes.
C1_Witness ==
  /\ Finished /\ WellNested(events) /\ Cardinality(TopLevel(events)) = 1
  /\ \E p, q \in TreePaths :
       /\ p # q
       /\ p[Len(p)] = q[Len(q)]
       /\ Node(p).count = 1
       /\ Node(q).count = 2
       /\ NodeAt(heap, schema, p) # NodeAt(heap, schema, q)

\* C5: in every state, no attribute of any node is counted more often than
\* the node itself.
C5_AttribAtMostCount ==
  \A n \in DOMAIN heap : \A a \in DOMAIN heap[n].attrib :
    heap[n].attrib[a] <= heap[n].count

\* C5 witness: a node seen twice, one attribute on both instances and another
\* on one of them only.
C5_Witness ==
  \E n \in DOMAIN heap : \E a, b \in DOMAIN heap[n].attrib :
    heap[n].count = 2 /\ heap[n].attrib[a] = 2 /\ heap[n].attrib[b] = 1

\* C6: when scan has finished, the attribute map of the node at a position
\* has exactly the attribute names that some instance at that position
\* carried, each with the number of instances that carried it.
C6_AttribPerPosition ==
  Finished =>
    LET pos == PositionOf(events)
    IN \A p \in TreePaths :
         /\ DOMAIN Node(p).attrib =
              {a \in AttrNames : InstancesWith(events, pos, p, a) # {}}
         /\ \A a \in DOMAIN Node(p).attrib :
              Node(p).attrib[a] = Cardinality(InstancesWith(events, pos, p, a))

\* C6 witness: a finished scan with a node whose instances carried x twice
\* and y never, below a parent that carried y.
C6_Witness ==
  /\ Finished
  /\ \E p \in TreePaths :
       /\ Len(p) = 2
       /\ DOMAIN Node(p).attrib = {<<"x">>}
       /\ Node(p).attrib[<<"x">>] = 2
       /\ <<"y">> \in DOMAIN Node(SubSeq(p, 1, 1)).attrib

\* C7: in every state each node's children map has exactly the full tags
\* that add_child was called with on that node, the heap holds no object
\* besides the root and one node per (parent, tag) pair seen, and the node
\* found under a tag is the object created by the first add_child for it
\* (objects are numbered in order of creation, the root being the first).
C7_OneNodePerTag ==
  LET seen == FirstSeen(events, PositionOf(events), Len(events))
  IN /\ Len(heap) = 1 + Len(seen)
     /\ \A k \in DOMAIN seen : NodeAt(heap, schema, seen[k]) = 1 + k
     /\ \A n \in DOMAIN heap : \A t \in DOMAIN heap[n].children :
          \E k \in DOMAIN seen :
            /\ heap[n].children[t] = 1 + k
            /\ seen[k][Len(seen[k])] = t
     /\ Cardinality({<<n, t>> \in (DOMAIN heap) \X {PlainA.tag, PrefB.tag} :
                       t \in DOMAIN heap[n].children}) = Len(seen)

\* C7 witness: add_child was called on the root with a tag, then with
\* another tag, then with the first tag again, and that last call reached
\* the object the first call had created.
C7_Witness ==
  LET pos == PositionOf(events)
  IN \E i, j, k \in Starts(events) :
       /\ i < j /\ j < k /\ k = Len(events)
       /\ Len(pos[i]) = 1 /\ Len(pos[j]) = 1
       /\ pos[i] = pos[k] /\ pos[j] # pos[i]
       /\ stack[Len(stack)] = 2
       /\ heap[2].count = 2
       /\ Len(heap) = 3

\* C2: a scan that handled an end event while no element was open never
\* returns a schema.
C2_StrayEndNeverReturns == StrayEnds(events) # {} => pc # "returned"

\* C3: scan returns a schema only when the synthetic root has exactly one
\* child.
C3_ReturnsOnlySingleChild ==
  pc = "returned" => Cardinality(DOMAIN heap[schema].children) = 1

\* C4: once scan has returned or aborted, the file object is no longer open.
C4_HandleReleased == pc \in {"returned", "aborted"} => fd # "open"

\* ---------------------------------------------------- order independence
\* The state of scan after the first n of the events evs.
RECURSIVE Replay(_, _)
Replay(evs, n) ==
  IF n = 0
  THEN [heap |-> <<SchemaElement(<< >>, << >>)>>, stack |-> <<schema>>]
  ELSE LET st == Replay(evs, n - 1)
       IN Fold(st.heap, st.stack, evs[n].event, evs[n].el, evs[n].attrib)

\* The end event of the element started by event i, given the trace tr.
MatchingEnd(tr, i) ==
  CHOOSE j \in (i + 1)..Len(tr) :
    /\ Len(tr[j]) = Len(tr[i]) - 1
    /\ \A k \in (i + 1)..(j - 1) : Len(tr[k]) >= Len(tr[i])

\* The start events whose element is directly followed by another element.
HasNextSibling(evs, tr) ==
  {i \in Starts(evs) :
     /\ MatchingEnd(tr, i) < Len(evs)
     /\ evs[MatchingEnd(tr, i) + 1].event = "start"}

\* evs with the element started at i and its next sibling exchanged.
SwapSiblings(evs, tr, i) ==
  LET j == MatchingEnd(tr, i)
      k == MatchingEnd(tr, j + 1)
  IN SubSeq(evs, 1, i - 1) \o SubSeq(evs, j + 1, k) \o SubSeq(evs, i, j)
     \o SubSeq(evs, k + 1, Len(evs))

\* Every full tag of the document always comes with the same prefix.
OnePrefixPerTag(evs) ==
  \A i, j \in Starts(evs) : evs[i].el.tag = evs[j].el.tag => evs[i].el = evs[j].el

\* The exchanges that change only the order in which distinct child tags
\* or distinct attributes first appear.
OrderSwaps(evs, tr) ==
  {i \in HasNextSibling(evs, tr) :
     \/ evs[i].el.tag # evs[MatchingEnd(tr, i) + 1].el.tag
     \/ OnePrefixPerTag(evs)}

\* The only child of the root of heap h.
OnlyChild(h) == h[schema].children[CHOOSE t \in DOMAIN h[schema].children : TRUE]

\* C8: when scan has finished a well-nested document with one top-level
\* element, scanning the same document with two adjacent sibling elements
\* exchanged (elements of distinct tags, or any two when each tag has one
\* prefix) yields the same overview report and the same detailed report.
C8_OrderIndependent ==
  (Finished /\ WellNested(events) /\ Cardinality(TopLevel(events)) = 1)
    => LET tr == OpenTrace(events, Len(events))
       IN \A i \in OrderSwaps(events, tr) :
            LET other == SwapSiblings(events, tr, i)
                st == Replay(other, Len(other))
            IN /\ pformat(st.heap, OnlyChild(st.heap), FALSE)
                    = pformat(heap, result, FALSE)
               /\ pformat(st.heap, OnlyChild(st.heap), TRUE)
                    = pformat(heap, result, TRUE)

\* C8 witness: a finished scan of <a><p:b/><a y=""/></a>, whose children
\* {u}b and a appear in the other order in the exchanged document, so that
\* the two scans built different heaps.
C8_Witness ==
  /\ Finished /\ WellNested(events) /\ Cardinality(TopLevel(events)) = 1
  /\ LET tr == OpenTrace(events, Len(events))
     IN \E i \in OrderSwaps(events, tr) :
          LET other == SwapSiblings(events, tr, i)
              st == Replay(other, Len(other))
          IN /\ events[i].el.tag = PrefB.tag
             /\ other[i].el.tag = PlainA.tag
             /\ other[i].attrib = {<<"y">>}
             /\ st.heap # heap

\* ------------------------------------------------------------ tag identity
\* The length of the '{namespace-uri}' qualifier at the head of tag t, 0 if
\* t has none.
QualifierLen(t) ==
  IF t # << >> /\ t[1] = "{" /\ \E k \in DOMAIN t : t[k] = "}"
  THEN CHOOSE k \in DOMAIN t : t[k] = "}" /\ \A j \in 1..(k - 1) : t[j] # "}"
  ELSE 0

\* C9: after every event, if the tag has a qualifier that is not the
\* namespace resolved for the prefix, scan has aborted on the assertion;
\* otherwise, unless it aborted on the assertion, shorttag is the tag without
\* its qualifier.
C9_QualifierCheckedAndStripped ==
  event # "" =>
    LET q == SubSeq(tag, 1, QualifierLen(tag))
    IN IF q # << >> /\ q # ns
       THEN pc = "aborted" /\ err = "AssertionError"
       ELSE err # "AssertionError" => shorttag = SliceFrom(tag, QualifierLen(tag))

\* C10: scan can always take its next step until it has returned or
\* aborted, and when it returns after a well-nested event sequence the stack
\* holds the synthetic root alone and the value returned is the only child
\* of the root.
C10_ReturnsUniqueChild ==
  /\ pc \in {"init", "loop"} => ENABLED Next
  /\ (pc = "returned" /\ WellNested(events))
       => /\ stack = <<schema>>
          /\ Cardinality(DOMAIN heap[schema].children) = 1
          /\ result = OnlyChild(heap)

\* ---------------------------------------------------------------- reports
\* The paths, from the root, of the node scan returned and of the nodes
\* below it: the nodes the reports render.
Rendered ==
  LET top == CHOOSE p \in TreePaths : Len(p) = 1 /\ NodeAt(heap, schema, p) = result
  IN {top} \cup PathsBelow(heap, result, top)

\* C11: when scan has finished, the text the detailed rendering emits for a
\* rendered node with an empty attribute map is the text the overview emits
\* for it, and when no rendered node has attributes the two reports are
\* equal.
C11_NoAttribSameLine ==
  Finished =>
    /\ \A p \in Rendered :
         DOMAIN Node(p).attrib = {}
           => NodeText(Node(p), 2 * (Len(p) - 1), TRUE)
                = NodeText(Node(p), 2 * (Len(p) - 1), FALSE)
    /\ (\A p \in Rendered : DOMAIN Node(p).attrib = {})
         => pformat(heap, result, TRUE) = pformat(heap, result, FALSE)

\* C11 witness: a finished scan whose report has a node without attributes
\* and no node with attributes.
C11_Witness ==
  /\ Finished
  /\ Cardinality(Rendered) = 3
  /\ \A p \in Rendered : DOMAIN Node(p).attrib = {}

\* --------------------------------------------------------- progress wrapper
\* The exceptions scan can end with when it reads the file itself.
PlainErrors == {"IOError", "AssertionError", "IndexError"}

\* C12: the scan with the progress wrapper builds the tree the plain scan
\* builds from the events handled so far, and ends the way the plain scan
\* can end: it never aborts with an exception of the wrapper's own.
C12_ProgressSameOutcome ==
  /\ pc # "aborted" =>
       /\ heap = Replay(events, Len(events)).heap
       /\ stack = Replay(events, Len(events)).stack
  /\ pc = "aborted" => err \in PlainErrors

\* ----------------------------------------------------------------- overview
\* Path p comes before path q in depth-first pre-order with siblings in
\* lexicographic order of their full tag: p is a proper prefix of q, or at
\* the first place they differ p has the smaller tag.
PathLess(p, q) ==
  \E i \in 1..Len(q) :
    /\ \A k \in 1..(i - 1) : k <= Len(p) /\ p[k] = q[k]
    /\ \/ i = Len(p) + 1
       \/ i <= Len(p) /\ StrLess(p[i], q[i])

\* The k-th of the paths P in that order.
Nth(P, k) == CHOOSE p \in P : Cardinality({q \in P : PathLess(q, p)}) = k - 1

\* The overview line of the node at path p, d levels below the rendered node.
OverviewLine(p, d) ==
  Spaces(2 * d)
  \o (IF Node(p).prefix # << >> THEN Node(p).prefix \o <<":">> ELSE << >>)
  \o Node(p).shorttag \o <<"{">> \o str(Node(p).count) \o <<"}", ":", "\n">>

\* The lines of the first k of the paths P, one after the other.
RECURSIVE OverviewLines(_, _)
OverviewLines(P, k) ==
  IF k = 0 THEN << >>
  ELSE OverviewLines(P, k - 1) \o OverviewLine(Nth(P, k), Len(Nth(P, k)) - 1)

\* C13: the overview of a finished scan is one line per rendered node, in
\* depth-first pre-order with siblings in lexicographic order of full tag;
\* the line of a node d levels down is 2*d spaces, `prefix:` when the prefix
\* is not empty, the short tag and `{count}:`.
C13_OverviewLines ==
  Finished =>
    pformat(heap, result, FALSE) = OverviewLines(Rendered, Cardinality(Rendered))

\* C13 witness: a finished scan whose returned node has two children, the
\* one created first having the greater tag and a prefix, the other none.
C13_Witness ==
  /\ Finished
  /\ \E s, t \in DOMAIN heap[result].children :
       /\ StrLess(s, t)
       /\ heap[result].children[t] < heap[result].children[s]
       /\ heap[heap[result].children[t]].prefix # << >>
       /\ heap[heap[result].children[s]].prefix = << >>

\* ------------------------------------------------------ the parser's tree
\* The number of elements among the nodes.
RECURSIVE Elems(_)
Elems(nodes) ==
  IF nodes = << >> THEN 0
  ELSE (IF Head(nodes) = "element" THEN 1 ELSE 0) + Elems(Tail(nodes))

\* C14: below the document level the parser's tree keeps, among the
\* children of an open element, no element but the one closed last (cleared)
\* or the one now open and its one predecessor: an element that was closed
\* has no preceding sibling element attached, so the elements retained are
\* at most two for each level of nesting.
C14_SiblingsReleased ==
  \A k \in 2..Len(raw) : Elems(raw[k]) <= (IF k = Len(raw) THEN 1 ELSE 2)

\* ------------------------------------------------------------ monotonicity
\* Heap h2 holds everything heap h1 holds: every object, every entry of
\* every children map with the same child, every count and every
\* attribute count, none of them smaller.
GrownFrom(h1, h2) ==
  /\ Len(h2) >= Len(h1)
  /\ \A n \in DOMAIN h1 :
       /\ h2[n].count >= h1[n].count
       /\ \A t \in DOMAIN h1[n].children :
            /\ t \in DOMAIN h2[n].children
            /\ h2[n].children[t] = h1[n].children[t]
       /\ \A a \in DOMAIN h1[n].attrib :
            /\ a \in DOMAIN h2[n].attrib
            /\ h2[n].attrib[a] >= h1[n].attrib[a]

\* C15: every step of a scan leaves the tree grown or unchanged: no node
\* leaves its parent's children map, no count and no attribute count
\* decreases or disappears.
C15_TreeOnlyGrows == [][GrownFrom(heap, heap')]_vars

\* C15 witness: a node seen twice has been closed, with an attribute that
\* only its first instance carried still counted once.
C15_Witness ==
  /\ pc = "loop"
  /\ event = "end"
  /\ Len(stack) = 1
  /\ \E n \in DOMAIN heap :
       /\ heap[n].count = 2
       /\ \E a \in DOMAIN heap[n].attrib : heap[n].attrib[a] = 1
       /\ events[Len(events) - 1].attrib = {}

\* ------------------------------------------------------- the synthetic root
\* Sequence s begins with sequence t.
BeginsWith(s, t) == Len(s) >= Len(t) /\ SubSeq(s, 1, Len(t)) = t

\* C16: the synthetic root has an empty prefix, an empty short tag and
\* count 0 (no attributes either), it is the only such node and no node's
\* child; what scan returns for the report is a child of the root, whose own
\* line is the first line of the overview.
C16_OneSyntheticRoot ==
  /\ heap[schema].prefix = << >>
  /\ heap[schema].shorttag = << >>
  /\ heap[schema].count = 0
  /\ DOMAIN heap[schema].attrib = {}
  /\ \A n \in DOMAIN heap \ {schema} :
       heap[n].count >= 1 /\ heap[n].shorttag # << >>
  /\ \A n \in DOMAIN heap : \A t \in DOMAIN heap[n].children :
       heap[n].children[t] # schema
  /\ Finished =>
       /\ result # schema
       /\ \E t \in DOMAIN heap[schema].children :
            heap[schema].children[t] = result
       /\ BeginsWith(dump_schema(heap, result),
                     <<"Overview", "\n", "========", "\n">>
                       \o NodeText(heap[result], 0, FALSE))

\* C16 witness: a finished scan of a document with one top-level element
\* that has children, the root still uncounted.
C16_Witness ==
  /\ Finished
  /\ Len(heap) >= 3
  /\ Cardinality(DOMAIN heap[schema].children) = 1
  /\ heap[result].count >= 1
  /\ heap[schema].count = 0

\* --------------------------------------------------------------- end events
\* The step handled a `kind` event: the history grew by one such event.
Handled(kind) ==
  /\ Len(events') = Len(events) + 1
  /\ events'[Len(events')].event = kind

\* C17: a step that handles an end event removes the top entry of the stack
\* and leaves every SchemaElement as it was: counts, attribute counts and
\* children maps.
C17_EndOnlyPops ==
  [][Handled("end") =>
       /\ heap' = heap
       /\ stack' = SubSeq(stack, 1, Len(stack) - 1)
       /\ Len(stack') = Len(stack) - 1]_vars

\* C17 witness: an end event has just been handled below the top level, in
\* a tree of at least two nodes with attributes counted.
C17_Witness ==
  /\ pc = "loop"
  /\ events # << >>
  /\ events[Len(events)].event = "end"
  /\ Len(stack) = 2
  /\ Len(heap) >= 3
  /\ \E n \in DOMAIN heap : DOMAIN heap[n].attrib # {}

\* ---------------------------------------------------------------- the stack
\* The full tags of the elements open after all of the events evs.
OpenNow(evs) ==
  IF evs = << >> THEN << >> ELSE OpenTrace(evs, Len(evs))[Len(evs)]

\* C18: while no end event has arrived with nothing open, the stack is a
\* path of the tree: the synthetic root at the bottom, each entry above it
\* the child, under the tag of the open element at that depth, of the entry
\* below it, and one entry more than there are open elements.
C18_StackIsPath ==
  StrayEnds(events) = {} =>
    LET open == OpenNow(events)
    IN /\ Len(stack) = 1 + Len(open)
       /\ pc = "loop" => Len(open) = Len(srcOpen)
       /\ stack[1] = schema
       /\ \A i \in 2..Len(stack) :
            /\ open[i - 1] \in DOMAIN heap[stack[i - 1]].children
            /\ heap[stack[i - 1]].children[open[i - 1]] = stack[i]

\* C18 witness: two elements are open, the inner one at a position the
\* document had an element at before, so the stack re-entered a node.
C18_Witness ==
  /\ pc = "loop"
  /\ StrayEnds(events) = {}
  /\ Len(stack) = 3
  /\ heap[stack[3]].count = 2
  /\ Len(OpenNow(events)) = 2

\* ------------------------------------------------------------- start events
\* Object after is object before counted once more for an instance with
\* the attributes A, and otherwise the same.
CountedOnce(before, after, A) ==
  /\ after.count = before.count + 1
  /\ DOMAIN after.attrib = DOMAIN before.attrib \cup A
  /\ \A a \in DOMAIN after.attrib :
       after.attrib[a] =
         (IF a \in DOMAIN before.attrib THEN before.attrib[a] ELSE 0)
         + (IF a \in A THEN 1 ELSE 0)
  /\ after.prefix = before.prefix
  /\ after.shorttag = before.shorttag
  /\ after.children = before.children

\* C19: a step that handles a start event for tag T with attributes A
\* pushes the child T of the node on top of the stack and counts that child
\* once, with exactly the attributes in A; an existing child keeps its
\* prefix, short tag and children, a new one is added to the parent's
\* children map under T; the parent's count, attributes, prefix and short
\* tag and every other object are unchanged.
C19_StartTouchesOneNode ==
  [][Handled("start") =>
       LET parent == stack[Len(stack)]
           e      == events'[Len(events')]
           T      == e.el.tag
           child  == stack'[Len(stack')]
       IN /\ stack' = Append(stack, child)
          /\ T \in DOMAIN heap'[parent].children
          /\ heap'[parent].children[T] = child
          /\ child # parent
          /\ IF T \in DOMAIN heap[parent].children
             THEN /\ child = heap[parent].children[T]
                  /\ Len(heap') = Len(heap)
                  /\ CountedOnce(heap[child], heap'[child], e.attrib)
                  /\ \A n \in DOMAIN heap \ {child} : heap'[n] = heap[n]
             ELSE /\ child = Len(heap) + 1
                  /\ Len(heap') = Len(heap) + 1
                  /\ CountedOnce(SchemaElement(e.el.prefix, ShortTag(e.el)),
                                 heap'[child], e.attrib)
                  /\ \A n \in DOMAIN heap \ {parent} : heap'[n] = heap[n]
                  /\ heap'[parent] =
                       [heap[parent] EXCEPT !.children =
                          [t \in DOMAIN heap[parent].children \cup {T} |->
                             IF t = T THEN child
                             ELSE heap[parent].children[t]]]]_vars

\* C19 witness: a start event has just been handled for a tag whose node
\* already existed with another prefix and short tag.
C19_Witness ==
  /\ pc = "loop"
  /\ events # << >>
  /\ events[Len(events)].event = "start"
  /\ LET top == heap[stack[Len(stack)]]
     IN /\ top.count = 2
        /\ top.prefix # events[Len(events)].el.prefix
        /\ top.shorttag # ShortTag(events[Len(events)].el)

====
